---- MODULE Spec2Model ----
(***************************************************************************)
(* Model of src/main.py: the User record (a pydantic BaseModel with three  *)
(* required fields) and main(), which constructs one User inside           *)
(* try/except and prints its fields.                                       *)
(*                                                                         *)
(* The field declarations of lines 5-7 are given the meaning the pydantic  *)
(* library (version 2, default "lax" mode, default model configuration)    *)
(* gives them:                                                             *)
(*   name : str      = Field(min_length=1, max_length=50)                  *)
(*   age  : int      = Field(gt=0, le=120)                                 *)
(*   email: EmailStr                                                       *)
(* Every field is validated, every failing field contributes one error to  *)
(* the ValidationError, errors are listed in field declaration order.      *)
(*                                                                         *)
(* Python values are tagged records [t, i, s]; strings are sequences of    *)
(* one-character strings so that length, stripping and case folding are    *)
(* computed rather than assumed.                                           *)
(***************************************************************************)
EXTENDS Integers, Sequences, FiniteSets, TLC

VARIABLES input, pc, user, errors, out

vars == <<input, pc, user, errors, out>>

----------------------------------------------------------------------------
(* Program constants: the Field(...) arguments of lines 5 and 6.           *)

MinNameLen == 1
MaxNameLen == 50
AgeGt == 0
AgeLe == 120

(* Bounds of the model.                                                    *)
NameSlack == 1
AgeSlack == 2
MaxAgeStrLen == 2
MaxEmailLen == 5

----------------------------------------------------------------------------
(* Python values.                                                          *)

IntV(n) == [t |-> "int", i |-> n, s |-> <<>>]
StrV(s) == [t |-> "str", i |-> 0, s |-> s]
FloatV(tenths) == [t |-> "float", i |-> tenths, s |-> <<>>]
BoolV(b) == [t |-> "bool", i |-> IF b THEN 1 ELSE 0, s |-> <<>>]
NoneV == [t |-> "none", i |-> 0, s |-> <<>>]
Missing == [t |-> "missing", i |-> 0, s |-> <<>>]

FieldNames == <<"name", "age", "email">>

----------------------------------------------------------------------------
(* Characters.                                                             *)

LowerSeq == <<"a","b","c","d","e","f","g","h","i","j","k","l","m",
              "n","o","p","q","r","s","t","u","v","w","x","y","z">>
UpperSeq == <<"A","B","C","D","E","F","G","H","I","J","K","L","M",
              "N","O","P","Q","R","S","T","U","V","W","X","Y","Z">>
DigitSeq == <<"0","1","2","3","4","5","6","7","8","9">>

Range(f) == {f[k] : k \in DOMAIN f}

Letters == Range(LowerSeq) \cup Range(UpperSeq)
Digits == Range(DigitSeq)

ToLower(c) ==
  IF c \in Range(UpperSeq)
    THEN LowerSeq[CHOOSE k \in DOMAIN UpperSeq : UpperSeq[k] = c]
    ELSE c

LowerStr(s) == [k \in DOMAIN s |-> ToLower(s[k])]

DigitValue(c) == (CHOOSE k \in DOMAIN DigitSeq : DigitSeq[k] = c) - 1

RECURSIVE LStrip(_)
LStrip(s) == IF s # <<>> /\ Head(s) = " " THEN LStrip(Tail(s)) ELSE s

RECURSIVE RStrip(_)
RStrip(s) ==
  IF s # <<>> /\ s[Len(s)] = " " THEN RStrip(SubSeq(s, 1, Len(s) - 1)) ELSE s

Strip(s) == RStrip(LStrip(s))

----------------------------------------------------------------------------
(* Outcome of validating one field.                                        *)

Ok(v) == [ok |-> TRUE, value |-> v, kind |-> "", rule |-> ""]
Err(kind, rule) == [ok |-> FALSE, value |-> NoneV, kind |-> kind, rule |-> rule]

(* name: str = Field(min_length=1, max_length=50)                          *)
MinLengthOk(s) == Len(s) >= MinNameLen
(* Variant: the upper length bound taken as exclusive.                     *)
MaxLengthExclusive(s) == Len(s) < MaxNameLen

MaxLengthOk(s) == Len(s) <= MaxNameLen

(* Variant: the length constraints applied without the type check.         *)
ValidateNameNoTypeCheck(v) ==
  IF v.t = "missing" THEN Err("missing", "required")
  ELSE IF ~MinLengthOk(v.s) THEN Err("constraint", "min_length")
  ELSE IF ~MaxLengthOk(v.s) THEN Err("constraint", "max_length")
  ELSE Ok(StrV(v.s))

ValidateName(v) ==
  IF v.t = "missing" THEN Err("missing", "required")
  ELSE IF v.t # "str" THEN Err("type", "string_type")
  ELSE IF ~MinLengthOk(v.s) THEN Err("constraint", "min_length")
  ELSE IF ~MaxLengthOk(v.s) THEN Err("constraint", "max_length")
  ELSE Ok(StrV(v.s))

(* age: int = Field(gt=0, le=120); lax coercion to int comes first.        *)
RECURSIVE DigitsToInt(_)
DigitsToInt(s) ==
  IF s = <<>> THEN 0
  ELSE 10 * DigitsToInt(SubSeq(s, 1, Len(s) - 1)) + DigitValue(s[Len(s)])

AllDigits(s) == s # <<>> /\ \A k \in DOMAIN s : s[k] \in Digits

(* A string is read as an int after trimming blanks: an optional sign      *)
(* followed by decimal digits.                                             *)
StrAsInt(s) ==
  LET t == Strip(s)
      neg == t # <<>> /\ Head(t) = "-"
      pos == t # <<>> /\ Head(t) = "+"
      d == IF neg \/ pos THEN Tail(t) ELSE t
  IN IF AllDigits(d)
       THEN [ok |-> TRUE, n |-> IF neg THEN 0 - DigitsToInt(d) ELSE DigitsToInt(d)]
       ELSE [ok |-> FALSE, n |-> 0]

CoerceInt(v) ==
  CASE v.t = "int" -> [ok |-> TRUE, n |-> v.i, rule |-> ""]
    [] v.t = "bool" -> [ok |-> TRUE, n |-> v.i, rule |-> ""]
    [] v.t = "float" ->
         IF v.i % 10 = 0
           THEN [ok |-> TRUE, n |-> v.i \div 10, rule |-> ""]
           ELSE [ok |-> FALSE, n |-> 0, rule |-> "int_from_float"]
    [] v.t = "str" ->
         IF StrAsInt(v.s).ok
           THEN [ok |-> TRUE, n |-> StrAsInt(v.s).n, rule |-> ""]
           ELSE [ok |-> FALSE, n |-> 0, rule |-> "int_parsing"]
    [] OTHER -> [ok |-> FALSE, n |-> 0, rule |-> "int_type"]

(* Variant: the lower bound taken as inclusive (ge instead of gt).         *)
GtOkInclusive(n) == n >= AgeGt

GtOk(n) == n > AgeGt

(* Variant: the upper bound off by one.                                    *)
LeOkOffByOne(n) == n <= AgeLe + 1

LeOk(n) == n <= AgeLe

ValidateAge(v) ==
  IF v.t = "missing" THEN Err("missing", "required")
  ELSE LET c == CoerceInt(v)
       IN IF ~c.ok THEN Err("type", c.rule)
          ELSE IF ~GtOk(c.n) THEN Err("constraint", "gt")
          ELSE IF ~LeOk(c.n) THEN Err("constraint", "le")
          ELSE Ok(IntV(c.n))

(* email: EmailStr.  The value must be a str; it is trimmed, split at its  *)
(* "@", the local part must be a dot-atom and the domain a dotted host     *)
(* name ending in a letter; the result is the normalised address (domain   *)
(* in lower case).  The validator's length limits (64 for the local part,  *)
(* 254 overall) lie beyond the strings of this model, and so do the        *)
(* apostrophe and the backquote, the two atext characters left out below.  *)
AtextSpecials == {"!","#","$","%","&","*","+","-","/","=","?","^","_","{","|","}","~"}
Atext == Letters \cup Digits \cup AtextSpecials

AtPositions(s) == {k \in DOMAIN s : s[k] = "@"}

DotsOk(s) ==
  /\ s # <<>>
  /\ Head(s) # "."
  /\ s[Len(s)] # "."
  /\ \A k \in 1..(Len(s) - 1) : ~(s[k] = "." /\ s[k + 1] = ".")

LocalPartOk(s) ==
  /\ DotsOk(s)
  /\ \A k \in DOMAIN s : s[k] \in Atext \cup {"."}

HyphensOk(s) ==
  /\ Head(s) # "-"
  /\ s[Len(s)] # "-"
  /\ \A k \in 1..(Len(s) - 1) :
       ~(s[k] = "." /\ s[k + 1] = "-") /\ ~(s[k] = "-" /\ s[k + 1] = ".")

DomainOk(s) ==
  /\ DotsOk(s)
  /\ \A k \in DOMAIN s : s[k] \in Letters \cup Digits \cup {"-", "."}
  /\ HyphensOk(s)
  /\ \E k \in DOMAIN s : s[k] = "."
  /\ s[Len(s)] \in Letters

(* Variant: the whole address folded to lower case, not the domain alone.  *)
ParseEmailLowerAll(s) ==
  LET e == Strip(s)
      ats == AtPositions(e)
  IN IF Cardinality(ats) # 1 THEN [ok |-> FALSE, email |-> <<>>]
     ELSE LET at == CHOOSE k \in ats : TRUE
              local == SubSeq(e, 1, at - 1)
              domain == SubSeq(e, at + 1, Len(e))
          IN IF LocalPartOk(local) /\ DomainOk(domain)
               THEN [ok |-> TRUE, email |-> LowerStr(e)]
               ELSE [ok |-> FALSE, email |-> <<>>]

ParseEmail(s) ==
  LET e == Strip(s)
      ats == AtPositions(e)
  IN IF Cardinality(ats) # 1 THEN [ok |-> FALSE, email |-> <<>>]
     ELSE LET at == CHOOSE k \in ats : TRUE
              local == SubSeq(e, 1, at - 1)
              domain == SubSeq(e, at + 1, Len(e))
          IN IF LocalPartOk(local) /\ DomainOk(domain)
               THEN [ok |-> TRUE, email |-> local \o <<"@">> \o LowerStr(domain)]
               ELSE [ok |-> FALSE, email |-> <<>>]

(* Variant: the field declared as a plain str.                             *)
ValidateEmailAsStr(v) ==
  IF v.t = "missing" THEN Err("missing", "required")
  ELSE IF v.t # "str" THEN Err("type", "string_type")
  ELSE Ok(StrV(v.s))

ValidateEmail(v) ==
  IF v.t = "missing" THEN Err("missing", "required")
  ELSE IF v.t # "str" THEN Err("type", "string_type")
  ELSE LET p == ParseEmail(v.s)
       IN IF ~p.ok THEN Err("constraint", "email_format")
          ELSE Ok(StrV(p.email))

----------------------------------------------------------------------------
(* class User(BaseModel): construction from keyword arguments.             *)

ValidateField(f, v) ==
  CASE f = "name" -> ValidateName(v)
    [] f = "age" -> ValidateAge(v)
    [] f = "email" -> ValidateEmail(v)

(* Variant: validation stops at the first failing field.                   *)
RECURSIVE CollectFirstError(_, _)
CollectFirstError(kw, k) ==
  IF k > Len(FieldNames) THEN <<>>
  ELSE LET f == FieldNames[k]
           r == ValidateField(f, kw[f])
       IN IF r.ok THEN CollectFirstError(kw, k + 1)
          ELSE <<[field |-> f, kind |-> r.kind, rule |-> r.rule]>>

(* The error list of one construction: one entry per failing field, in     *)
(* the order the fields are declared.                                      *)
RECURSIVE CollectErrors(_, _)
CollectErrors(kw, k) ==
  IF k > Len(FieldNames) THEN <<>>
  ELSE LET f == FieldNames[k]
           r == ValidateField(f, kw[f])
       IN (IF r.ok THEN <<>> ELSE <<[field |-> f, kind |-> r.kind, rule |-> r.rule]>>)
          \o CollectErrors(kw, k + 1)

(* Variant: when a field is missing only the missing fields are reported.  *)
MissingOnlyErrors(kw) ==
  LET all == CollectErrors(kw, 1)
      isMissing(e) == e.kind = "missing"
  IN IF \E k \in DOMAIN all : isMissing(all[k])
       THEN SelectSeq(all, isMissing)
       ELSE all

ValidationErrors(kw) == CollectErrors(kw, 1)

NoUser == [bound |-> FALSE, name |-> NoneV, age |-> NoneV, email |-> NoneV]

Instance(kw) ==
  [bound |-> TRUE,
   name |-> ValidateName(kw.name).value,
   age |-> ValidateAge(kw.age).value,
   email |-> ValidateEmail(kw.email).value]

----------------------------------------------------------------------------
(* Inputs.                                                                 *)

SeqsUpTo(S, n) == UNION {[1..k -> S] : k \in 0..n}

Rep(c, n) == [k \in 1..n |-> c]

Alice == <<"A","l","i","c","e">>
AliceEmail == <<"a","l","i","c","e","@","e","x","a","m","p","l","e",".","c","o","m">>
NotAnEmail == <<"n","o","t","-","a","n","-","e","m","a","i","l">>

NameLens ==
  (0..NameSlack) \cup ((MaxNameLen - NameSlack)..(MaxNameLen + NameSlack))

NameValues ==
  {StrV(Rep("a", n)) : n \in NameLens}
    \cup {StrV(Alice), StrV(<<" ">>), IntV(5), NoneV, Missing}

AgeInts ==
  ((AgeGt - AgeSlack)..(AgeGt + AgeSlack))
    \cup ((AgeLe - AgeSlack)..(AgeLe + AgeSlack)) \cup {30, 150}

AgeStrings ==
  SeqsUpTo({"1", "-", "x"}, MaxAgeStrLen)
    \cup {<<"0">>, <<"0","1">>, <<" ","1">>, <<"1"," ">>, <<"1"," ","1">>,
          <<"3","0">>, <<"1","5","0">>, <<"1","2","0">>, <<"1","2","1">>,
          <<"+","7">>, <<"a","b","c">>}

AgeValues ==
  {IntV(n) : n \in AgeInts}
    \cup {StrV(s) : s \in AgeStrings}
    \cup {FloatV(300), FloatV(305), FloatV(0), FloatV(1205)}
    \cup {BoolV(TRUE), BoolV(FALSE), NoneV, Missing}

EmailStrings ==
  SeqsUpTo({"a", "@", "."}, MaxEmailLen)
    \cup {AliceEmail, NotAnEmail,
          <<"A","l","@","E","X",".","C","o","m">>,
          <<" ","a","@","a",".","a"," ">>,
          <<"a"," ","@","a",".","a">>,
          <<"a","@","a","-","b",".","c">>,
          <<"a","@","-","a",".","c">>,
          <<"a","@","a",".","1">>,
          <<"a","_","1","@","b","2",".","c">>}

EmailValues ==
  {StrV(s) : s \in EmailStrings} \cup {IntV(7), NoneV, Missing}

Inputs == [name : NameValues, age : AgeValues, email : EmailValues]

AliceInput == [name |-> StrV(Alice), age |-> IntV(30), email |-> StrV(AliceEmail)]

----------------------------------------------------------------------------
(* main(): lines 10-18, run on one set of keyword arguments.  The literal  *)
(* arguments of line 12 are AliceInput.                                    *)

Line(label, v) == [label |-> label, value |-> v]

Init ==
  /\ input \in Inputs
  /\ pc = "construct"
  /\ user = NoUser
  /\ errors = <<>>
  /\ out = <<>>

(* line 12: the call of User with the keyword arguments succeeds          *)
ConstructOk ==
  /\ pc = "construct"
  /\ ValidationErrors(input) = <<>>
  /\ user' = Instance(input)
  /\ pc' = "print_name"
  /\ UNCHANGED <<input, errors, out>>

(* line 12 raises: control goes to the except clause, user stays unbound   *)
ConstructRaise ==
  /\ pc = "construct"
  /\ ValidationErrors(input) # <<>>
  /\ errors' = ValidationErrors(input)
  /\ pc' = "except"
  /\ UNCHANGED <<input, user, out>>

(* Variant: the except clause without its return.                          *)
ExceptFallThrough ==
  /\ pc = "except"
  /\ out' = Append(out, Line("Error creating user", NoneV))
  /\ pc' = "print_name"
  /\ UNCHANGED <<input, user, errors>>

(* lines 13-15: print the error message (the text of the exception, whose  *)
(* violation list is kept in errors) and return                            *)
Except ==
  /\ pc = "except"
  /\ out' = Append(out, Line("Error creating user", NoneV))
  /\ pc' = "done"
  /\ UNCHANGED <<input, user, errors>>

(* line 16 *)
PrintName ==
  /\ pc = "print_name"
  /\ out' = Append(out, Line("User", user.name))
  /\ pc' = "print_email"
  /\ UNCHANGED <<input, user, errors>>

(* line 17 *)
PrintEmail ==
  /\ pc = "print_email"
  /\ out' = Append(out, Line("Email", user.email))
  /\ pc' = "print_age"
  /\ UNCHANGED <<input, user, errors>>

(* line 18 *)
PrintAge ==
  /\ pc = "print_age"
  /\ out' = Append(out, Line("Age", user.age))
  /\ pc' = "done"
  /\ UNCHANGED <<input, user, errors>>

(* Attribute assignment on a constructed instance.  The class of lines    *)
(* 4-7 sets no model configuration, so BaseModel stores the assigned value *)
(* as it is: the model is neither frozen nor validated on assignment.      *)
AssignValues == {IntV(150), StrV(<<>>)}

SetAttr(f, v) ==
  /\ user.bound
  /\ user' = [user EXCEPT ![f] = v]
  /\ UNCHANGED <<input, pc, errors, out>>

Assign == \E f \in Range(FieldNames), v \in AssignValues : SetAttr(f, v)

Next ==
  \/ ConstructOk
  \/ ConstructRaise
  \/ Except
  \/ PrintName
  \/ PrintEmail
  \/ PrintAge

Spec == Init /\ [][Next]_vars

(* main's steps together with attribute assignment by the holder of the    *)
(* instance.                                                               *)
NextAssign ==
  \/ Next
  \/ Assign

AssignSpec == Init /\ [][NextAssign]_vars

----------------------------------------------------------------------------
(* Properties.                                                             *)

Constructed == pc \notin {"construct"}
Raised == pc = "except" \/ (pc = "done" /\ ~user.bound)

FieldOk(f) == ValidateField(f, input[f]).ok
ErrorFields == [k \in DOMAIN errors |-> errors[k].field]
EntriesFor(f) == {k \in DOMAIN errors : errors[k].field = f}
IsFailing(f) == ~FieldOk(f)
FailingFields == SelectSeq(FieldNames, IsFailing)

(* What a well-formed instance is, stated on the instance alone.           *)
NameHolds(v) == v.t = "str" /\ Len(v.s) >= MinNameLen /\ Len(v.s) <= MaxNameLen
AgeHolds(v) == v.t = "int" /\ v.i > AgeGt /\ v.i <= AgeLe
EmailHolds(v) ==
  /\ v.t = "str"
  /\ Cardinality(AtPositions(v.s)) = 1
  /\ LET at == CHOOSE k \in AtPositions(v.s) : TRUE
     IN /\ LocalPartOk(SubSeq(v.s, 1, at - 1))
        /\ DomainOk(SubSeq(v.s, at + 1, Len(v.s)))

(* C1: construction is all-or-nothing.  A bound user holds, in each of its *)
(* three fields, a value of the declared type that satisfies the field's   *)
(* constraints, and was built without any violation; when construction     *)
(* raised, user is not bound; once line 12 has run exactly one of the two  *)
(* has happened.                                                           *)
C1_AllOrNothing ==
  /\ user.bound =>
       /\ NameHolds(user.name) /\ AgeHolds(user.age) /\ EmailHolds(user.email)
       /\ errors = <<>>
       /\ \A f \in Range(FieldNames) : FieldOk(f)
  /\ errors # <<>> => ~user.bound
  /\ Constructed => (user.bound <=> errors = <<>>)

C1_Witness ==
  /\ pc = "done"
  /\ ~user.bound
  /\ FieldOk("name") /\ FieldOk("email") /\ ~FieldOk("age")
  /\ input.age = IntV(AgeLe + 1)

(* C2: when several fields violate their rules, construction fails once    *)
(* and the violation list has one entry for every violating field, in the  *)
(* order name, age, email; validation does not stop at the first one.      *)
C2_AllViolationsInOrder ==
  Constructed /\ FailingFields # <<>> =>
    /\ ~user.bound
    /\ ErrorFields = FailingFields

C2_Witness ==
  /\ pc = "except"
  /\ input.name = StrV(<<>>)
  /\ input.age = IntV(150)
  /\ input.email = StrV(NotAnEmail)
  /\ ErrorFields = FieldNames

(* Python's == on two values: numbers compare by value whatever their      *)
(* numeric type, strings by content, None with None.                       *)
IsNumber(v) == v.t \in {"int", "bool", "float"}
Tenths(v) == IF v.t = "float" THEN v.i ELSE 10 * v.i
PyEq(a, b) ==
  \/ IsNumber(a) /\ IsNumber(b) /\ Tenths(a) = Tenths(b)
  \/ a.t = "str" /\ b.t = "str" /\ a.s = b.s
  \/ a.t = "none" /\ b.t = "none"

Normalised(s) ==
  LET e == Strip(s)
  IN [k \in DOMAIN e |->
        IF \E j \in 1..(k - 1) : e[j] = "@" THEN ToLower(e[k]) ELSE e[k]]

(* The integer a supplied age denotes.                                     *)
Denotes(v, n) ==
  CASE v.t \in {"int", "bool"} -> n = v.i
    [] v.t = "float" -> 10 * n = v.i
    [] v.t = "str" -> StrAsInt(v.s).ok /\ StrAsInt(v.s).n = n
    [] OTHER -> FALSE

C4_Immutable ==
  user.bound =>
    /\ user = Instance(input)
    /\ NameHolds(user.name) /\ AgeHolds(user.age)

(* C5: with name and email valid and an integer age, construction succeeds *)
(* exactly when 0 < age <= 120; 0, 121 and negative ages fail, 1 and 120   *)
(* succeed; a failure carries exactly one violation, a constraint          *)
(* violation on age.                                                       *)
AgeFailure ==
  /\ ~user.bound
  /\ Len(errors) = 1
  /\ errors[1].field = "age"
  /\ errors[1].kind = "constraint"

C5_AgeBounds ==
  Constructed /\ FieldOk("name") /\ FieldOk("email") /\ input.age.t = "int" =>
    /\ user.bound <=> (input.age.i > AgeGt /\ input.age.i <= AgeLe)
    /\ ~user.bound => AgeFailure
    /\ input.age.i \in {AgeGt, AgeLe + 1} => AgeFailure
    /\ input.age.i < 0 => AgeFailure
    /\ input.age.i \in {AgeGt + 1, AgeLe} => user.bound /\ user.age = input.age

C5_Witness ==
  /\ pc = "done"
  /\ FieldOk("name") /\ FieldOk("email")
  /\ input.age = IntV(AgeGt)
  /\ AgeFailure

(* C6: with age and email valid and a string name, construction succeeds   *)
(* exactly when 1 <= len(name) <= 50; lengths 0 and 51 fail, 1 and 50      *)
(* succeed; a failure carries exactly one violation, a constraint          *)
(* violation on name.                                                      *)
NameFailure ==
  /\ ~user.bound
  /\ Len(errors) = 1
  /\ errors[1].field = "name"
  /\ errors[1].kind = "constraint"

C6_NameLength ==
  Constructed /\ FieldOk("age") /\ FieldOk("email") /\ input.name.t = "str" =>
    /\ user.bound <=> (Len(input.name.s) >= MinNameLen /\ Len(input.name.s) <= MaxNameLen)
    /\ ~user.bound => NameFailure
    /\ Len(input.name.s) \in {MinNameLen - 1, MaxNameLen + 1} => NameFailure
    /\ Len(input.name.s) \in {MinNameLen, MaxNameLen} => user.bound /\ user.name = input.name

C6_Witness ==
  /\ pc = "done"
  /\ FieldOk("age") /\ FieldOk("email")
  /\ input.name.t = "str" /\ Len(input.name.s) = MaxNameLen
  /\ user.bound

(* C7: when required fields are omitted construction fails; every omitted  *)
(* field has exactly one entry, a missing-field entry, and every supplied  *)
(* field that violates its rules still has its entry in the same list.     *)
Omitted(f) == input[f] = Missing

C7_MissingFields ==
  Constructed /\ (\E f \in Range(FieldNames) : Omitted(f)) =>
    /\ ~user.bound
    /\ errors # <<>>
    /\ \A f \in Range(FieldNames) :
         /\ Omitted(f) =>
              /\ Cardinality(EntriesFor(f)) = 1
              /\ \A k \in EntriesFor(f) : errors[k].kind = "missing"
         /\ ~Omitted(f) =>
              /\ \A k \in EntriesFor(f) : errors[k].kind # "missing"
              /\ (EntriesFor(f) # {}) <=> ~FieldOk(f)

C7_Witness ==
  /\ pc = "except"
  /\ Omitted("name")
  /\ input.age = IntV(150)
  /\ FieldOk("email")
  /\ ErrorFields = <<"name", "age">>

(* C8: with name and age valid and an email string that is not a           *)
(* well-formed address, construction fails with exactly one violation, on  *)
(* email; an address without "@", such as not-an-email, is one such.       *)
Malformed(s) ==
  \/ ~ParseEmail(s).ok
  \/ AtPositions(s) = {}

C8_MalformedEmail ==
  /\ Malformed(NotAnEmail)
  /\ Constructed /\ FieldOk("name") /\ FieldOk("age")
       /\ input.email.t = "str" /\ Malformed(input.email.s) =>
         /\ ~user.bound
         /\ Len(errors) = 1
         /\ errors[1].field = "email"
         /\ errors[1].kind = "constraint"

C8_Witness ==
  /\ pc = "except"
  /\ input.name = StrV(Alice) /\ input.age = IntV(30)
  /\ input.email = StrV(NotAnEmail)
  /\ ErrorFields = <<"email">>

(* C9: a supplied value of the wrong type gives a type-mismatch violation  *)
(* for its field and no constraint violation; no field ever has more than  *)
(* one entry in the list.                                                  *)
NonNumeric(s) == \E k \in DOMAIN s : s[k] \notin Digits \cup {" ", "+", "-"}

WrongType(f) ==
  CASE f = "name" -> input.name.t \notin {"str", "missing"}
    [] f = "age" ->
         \/ input.age.t = "none"
         \/ input.age.t = "str" /\ NonNumeric(input.age.s)
    [] f = "email" -> input.email.t \notin {"str", "missing"}

FieldLines ==
  <<Line("User", user.name), Line("Email", user.email), Line("Age", user.age)>>
ErrorLines == <<Line("Error creating user", NoneV)>>

IsPrefix(s, u) == Len(s) <= Len(u) /\ s = SubSeq(u, 1, Len(s))

C10_OneOutputSequence ==
  /\ user.bound => IsPrefix(out, FieldLines)
  /\ ~user.bound => IsPrefix(out, ErrorLines)
  /\ pc = "done" =>
       \/ user.bound /\ errors = <<>> /\ out = FieldLines
       \/ ~user.bound /\ errors # <<>> /\ out = ErrorLines
  /\ pc = "done" /\ input = AliceInput =>
       out = <<Line("User", StrV(Alice)), Line("Email", StrV(AliceEmail)),
               Line("Age", IntV(30))>>

C10_Witness ==
  /\ pc = "done"
  /\ input = AliceInput
  /\ Len(out) = 3

====
